---- MODULE Spec2Model ----
(***************************************************************************)
(* A model of the tweet analysis pipeline: DataProcessor (load and clean), *)
(* DataExplorer (five statistics), AntisemitismReportFormatter and         *)
(* ReportGenerator, sequenced by main().                                   *)
(*                                                                         *)
(* A table (pandas DataFrame) is a record                                  *)
(*   [cols    : the set of column names,                                   *)
(*    textObj : TRUE iff the Text column has dtype object,                 *)
(*    rows    : the sequence of rows, each [Text |-> cell, Biased |-> cell]*)
(* A text cell is [kind, s]: kind "null" (NaN), "str" (s is the sequence   *)
(* of its characters) or "num" (a number read from a numeric column).      *)
(* A label cell is [kind, s, h]: "null", "str" (s its string), "int" (h    *)
(* its value) or "float" (h its value in halves: h = 2 is 1.0).            *)
(* read_csv gives a column one dtype: a column with a non-numeric entry is *)
(* object and holds strings and NaN, any other column of a table with rows *)
(* is numeric and holds numbers and NaN; a table without rows has object   *)
(* columns.                                                                *)
(***************************************************************************)
EXTENDS Integers, Sequences, FiniteSets, TLC

VARIABLES
    pc,                   \* position of the running entry point
    file,                 \* the table stored in the input CSV file
    df,                   \* DataExplorer.df
    raw_df,               \* DataProcessor.raw_df of the cleaning processor
    exploration_results,  \* DataExplorer.exploration_results
    ret,                  \* [op, val]: the value the last call returned
    raised,               \* "none", or the exception that left the entry point
    processed_df,         \* DataProcessor.processed_df ([some |-> FALSE] is None)
    stage_failed,         \* the cleaning stages in which an error occurred
    stages_run,           \* the cleaning stages that were applied, in order
    top_n,                \* the n of the statistic that takes one
    raw_results,          \* ReportGenerator.raw_results ([ok |-> FALSE]: not a mapping)
    report_df,            \* ReportGenerator.df
    files,                \* [csv, json]: the state of each output file
    trace                 \* the steps the entry point has taken, in order

vars == <<pc, file, df, raw_df, exploration_results, ret, raised, processed_df,
          stage_failed, stages_run, top_n, raw_results, report_df, files, trace>>

----------------------------------------------------------------------------
(* Bounds of the model *)

\* The most rows of a table of the runs of main, of the pipeline and of the
\* report writer
MaxRows == 2

\* The most rows of a table given to one statistic
MaxStatRows == 3

\* The largest n given to a statistic that takes one
MaxN == 2

\* The most calls a client makes on one DataExplorer, one at a time
MaxCalls == 2

----------------------------------------------------------------------------
(* Configuration *)

TOP_N_LONGEST_TWEETS == 3

TOP_N_COMMON_WORDS == 10

CLASSIFICATION_COLUMN == "Biased"

TEXT_COLUMN == "Text"

RELEVANT_COLUMNS == <<"Text", "Biased">>

----------------------------------------------------------------------------
(* Characters and strings (a string is the sequence of its characters) *)

\* "e_acute" is the one character U+00E9, a lower-case letter outside ASCII
\* (the file is decoded as latin-1)
LowerLetters == {"a", "b", "o", "k", "e_acute"}

UpperLetters == {"A", "B", "O", "K"}

Digits == {"1"}

Whitespace == {" "}

\* str.lower() on one character
LowerChar(c) ==
    CASE c = "A" -> "a"
      [] c = "B" -> "b"
      [] c = "O" -> "o"
      [] c = "K" -> "k"
      [] OTHER -> c

\* str.lower()
Lower(s) == [i \in 1..Len(s) |-> LowerChar(s[i])]

\* \w of the regular expression; the pattern is a str, so \w is every
\* Unicode letter and digit and the underscore
IsWordChar(c) == c \in LowerLetters \cup UpperLetters \cup Digits \cup {"_"}

\* \s of the regular expression
IsSpace(c) == c \in Whitespace

KeepChar(c) == IsWordChar(c) \/ IsSpace(c)

\* re.sub(r'[^\w\s]', '', s)
StripPunct(s) == SelectSeq(s, KeepChar)

\* str.split(): the maximal runs of non-whitespace characters, in order
RECURSIVE SplitFrom(_, _, _)
SplitFrom(s, i, cur) ==
    IF i > Len(s)
    THEN IF cur = <<>> THEN <<>> ELSE <<cur>>
    ELSE IF IsSpace(s[i])
         THEN (IF cur = <<>> THEN <<>> ELSE <<cur>>) \o SplitFrom(s, i + 1, <<>>)
         ELSE SplitFrom(s, i + 1, Append(cur, s[i]))

Split(s) == SplitFrom(s, 1, <<>>)

\* ' '.join(texts)
RECURSIVE Join(_)
Join(texts) ==
    IF texts = <<>> THEN <<>>
    ELSE IF Len(texts) = 1 THEN texts[1]
    ELSE texts[1] \o <<" ">> \o Join(Tail(texts))

\* str.isupper(): at least one cased character and no lower-case one
IsUpper(w) ==
    /\ \E i \in 1..Len(w) : w[i] \in UpperLetters
    /\ \A i \in 1..Len(w) : w[i] \notin LowerLetters

----------------------------------------------------------------------------
(* Cells *)

NullText == [kind |-> "null", s |-> <<>>]

NumText == [kind |-> "num", s |-> <<>>]

StrText(s) == [kind |-> "str", s |-> s]

NullLabel == [kind |-> "null", s |-> "", h |-> 0]

StrLabel(s) == [kind |-> "str", s |-> s, h |-> 0]

IntLabel(v) == [kind |-> "int", s |-> "", h |-> v]

FloatLabel(h) == [kind |-> "float", s |-> "", h |-> h]

\* pd.isna
IsNa(c) == c.kind = "null"

\* str(int) for the integers of the model
IntStr(v) ==
    CASE v = 0 -> "0"
      [] v = 1 -> "1"
      [] v = 2 -> "2"
      [] OTHER -> "3"

\* str(float), the float given in halves
FloatStr(h) ==
    CASE h = 0 -> "0.0"
      [] h = 1 -> "0.5"
      [] h = 2 -> "1.0"
      [] h = 3 -> "1.5"
      [] OTHER -> "2.0"

\* isinstance(key, float) and key.is_integer()
IsIntegralFloat(c) == c.kind = "float" /\ c.h % 2 = 0

\* str(key) of a label that is not NaN
StrOf(c) ==
    CASE c.kind = "str" -> c.s
      [] c.kind = "int" -> IntStr(c.h)
      [] OTHER -> FloatStr(c.h)

----------------------------------------------------------------------------
(* Helpers on sequences, mappings and numbers *)

Range(f) == {f[i] : i \in DOMAIN f}

\* The orderings of the finite set S: the sequences holding each element once
Perms(S) ==
    {f \in [1..Cardinality(S) -> S] : \A i, j \in DOMAIN f : i # j => f[i] # f[j]}

EmptyDict == [k \in {} |-> 0]

\* d[k] = v of a Python dict: an existing key is overwritten
DictPut(d, k, v) == [x \in DOMAIN d \cup {k} |-> IF x = k THEN v ELSE d[x]]

\* A float NaN among numbers given in hundredths
NaN == -1

\* round(s / c, 2) in hundredths, NaN for the mean of nothing.  Python rounds
\* a tie to even; a tie needs c >= 8.
Round2(s, c) ==
    IF c = 0 THEN NaN
    ELSE LET q == (100 * s) \div c
             r == (100 * s) % c
         IN IF 2 * r < c THEN q
            ELSE IF 2 * r > c THEN q + 1
            ELSE q + (q % 2)

\* The sum of f[i] over the finite set S of indices
RECURSIVE SumOver(_, _)
SumOver(f, S) ==
    IF S = {} THEN 0
    ELSE LET i == CHOOSE x \in S : TRUE IN f[i] + SumOver(f, S \ {i})

\* The subsequence of q at the positions P, in order
SubSeqAt(q, P) ==
    LET at == [k \in 1..Cardinality(P) |->
                  CHOOSE p \in P : Cardinality({x \in P : x < p}) = k - 1]
    IN [k \in 1..Cardinality(P) |-> q[at[k]]]

Min(a, b) == IF a <= b THEN a ELSE b

----------------------------------------------------------------------------
(* DataExplorer *)

HasColumn(t, c) == c \in t.cols

LabelAt(t, i) == t.rows[i].Biased

TextAt(t, i) == t.rows[i].Text

RowIds(t) == 1..Len(t.rows)

\* The rows whose label is the value l (NaN groups with NaN)
RowsOfLabel(t, l) == {i \in RowIds(t) : LabelAt(t, i) = l}

\* df[col].value_counts(dropna=False): the distinct labels, most frequent
\* first; the order among equal counts is the library's choice
ValueCountsOrders(t) ==
    {o \in Perms({LabelAt(t, i) : i \in RowIds(t)}) :
        \A a, b \in DOMAIN o :
            a < b => Cardinality(RowsOfLabel(t, o[a])) >= Cardinality(RowsOfLabel(t, o[b]))}

\* The key of a label in get_count_by_category
CountKey(l) ==
    IF IsNa(l) THEN "unclassified"
    ELSE IF IsIntegralFloat(l) THEN IntStr(l.h \div 2)
    ELSE StrOf(l)

\* The loop over counts.items() of get_count_by_category
RECURSIVE FoldCounts(_, _, _, _)
FoldCounts(t, o, i, acc) ==
    IF i > Len(o) THEN acc
    ELSE FoldCounts(t, o, i + 1,
                    DictPut(acc, CountKey(o[i]), Cardinality(RowsOfLabel(t, o[i]))))

\* get_count_by_category on a table that has the column, o the order of
\* value_counts
CountByCategory(t, o) == DictPut(FoldCounts(t, o, 1, EmptyDict), "total", Len(t.rows))

\* The labels groupby(category_column) groups by, after dropna
GroupLabels(t, S) == {LabelAt(t, i) : i \in S}

\* Series.str on the text column raises AttributeError: the column is numeric
StrAccessorRaises(t, filled) ==
    /\ ~t.textObj
    /\ (filled => \A i \in RowIds(t) : ~IsNa(TextAt(t, i)))

\* fillna('') then .str.split().str.len(): NaN for a value that is no string
FilledWordCount(c) ==
    CASE c.kind = "null" -> 0
      [] c.kind = "str" -> Len(Split(c.s))
      [] OTHER -> NaN

\* Series.mean() of the word counts of the rows S, rounded: NaN is skipped
MeanWordCount(t, S) ==
    LET wc == [i \in RowIds(t) |-> FilledWordCount(TextAt(t, i))]
        T == {i \in S : wc[i] # NaN}
    IN Round2(SumOver(wc, T), Cardinality(T))

\* The key of a category in calculate_average_word_count
AverageKey(l) == IF IsIntegralFloat(l) THEN IntStr(l.h \div 2) ELSE StrOf(l)

\* calculate_average_word_count on a table that has both columns: 'total'
\* first, then one entry per group (the keys of the groups of one column are
\* distinct)
AverageWordCount(t) ==
    LET S == {i \in RowIds(t) : ~IsNa(LabelAt(t, i))}
        G == GroupLabels(t, S)
    IN [k \in {"total"} \cup {AverageKey(l) : l \in G} |->
           IF \E l \in G : AverageKey(l) = k
           THEN MeanWordCount(t, RowsOfLabel(t, CHOOSE l \in G : AverageKey(l) = k))
           ELSE MeanWordCount(t, RowIds(t))]

\* The rows left by dropna(subset=[text_column, category_column])
LongestKept(t) == {i \in RowIds(t) : ~IsNa(TextAt(t, i)) /\ ~IsNa(LabelAt(t, i))}

\* .str.split().str.len() of a string
WordCount(c) == Len(Split(c.s))

\* The sort with ascending=True in place of ascending=False
SortOrders_Ascending(t) ==
    {o \in Perms({i \in RowIds(t) : ~IsNa(TextAt(t, i)) /\ ~IsNa(LabelAt(t, i))}) :
        \A a, b \in DOMAIN o :
            a < b => Len(Split(TextAt(t, o[a]).s)) <= Len(Split(TextAt(t, o[b]).s))}

\* sort_values(by='word_count', ascending=False) with the default kind
\* 'quicksort', which pandas documents as not stable (numpy's introsort keeps
\* equal keys in order only below its insertion-sort threshold of 17
\* elements).  The tables of the model stand for tables of any size, so the
\* sort is every order of the rows that is non-increasing in word count.
SortOrders(t) ==
    {o \in Perms(LongestKept(t)) :
        \A a, b \in DOMAIN o :
            a < b => WordCount(TextAt(t, o[a])) >= WordCount(TextAt(t, o[b]))}

\* groupby(category_column).head(n): the first n rows of each group, the
\* order of the frame kept
GroupHead(t, o, n) ==
    SubSeqAt(o, {p \in 1..Len(o) :
        Cardinality({q \in 1..(p - 1) : LabelAt(t, o[q]) = LabelAt(t, o[p])}) < n})

\* The key of a category in get_n_longest_texts_by_category
LongestKey(l) == IF IsIntegralFloat(l) THEN IntStr(l.h \div 2) ELSE StrOf(l)

\* group[text_column].tolist() of the group of label l
GroupTexts(t, hd, l) ==
    LET ids == SubSeqAt(hd, {p \in 1..Len(hd) : LabelAt(t, hd[p]) = l})
    IN [p \in 1..Len(ids) |-> TextAt(t, ids[p]).s]

\* get_n_longest_texts_by_category on a table that has both columns, o the
\* order sort_values gave
NLongestTexts(t, o, n) ==
    LET hd == GroupHead(t, o, n)
        G == {LabelAt(t, hd[p]) : p \in 1..Len(hd)}
    IN [k \in {LongestKey(l) : l \in G} |->
           GroupTexts(t, hd, CHOOSE l \in G : LongestKey(l) = k)]

\* The words of get_most_common_words: dropna, lower, the regular
\* expression, ' '.join and split
AllWords(t) ==
    LET ids == SubSeqAt([i \in RowIds(t) |-> i], {i \in RowIds(t) : ~IsNa(TextAt(t, i))})
        cleaned == [p \in 1..Len(ids) |-> StripPunct(Lower(TextAt(t, ids[p]).s))]
    IN Split(Join(cleaned))

\* The number of times w occurs in the sequence words
Occurrences(words, w) == Cardinality({p \in 1..Len(words) : words[p] = w})

\* pd.Series(words).value_counts(): the distinct words, most frequent first
WordOrders(words) ==
    {o \in Perms(Range(words)) :
        \A a, b \in DOMAIN o :
            a < b => Occurrences(words, o[a]) >= Occurrences(words, o[b])}

\* head(n + 1) in place of head(n)
MostCommon_OneMore(o, n) == SubSeq(o, 1, IF n + 1 <= Len(o) THEN n + 1 ELSE Len(o))

\* word_counts.head(n).index.tolist()
MostCommon(o, n) == SubSeq(o, 1, Min(n, Len(o)))

\* _count_uppercase of one value of the column after fillna('')
CountUppercase(c) ==
    IF c.kind = "num" THEN 0
    ELSE LET w == Split(c.s) IN Cardinality({p \in 1..Len(w) : IsUpper(w[p])})

\* The key of a category in count_uppercase_words_by_category
UppercaseKey(l) == IF IsIntegralFloat(l) THEN IntStr(l.h \div 2) ELSE StrOf(l)

\* count_uppercase_words_by_category on a table that has both columns
UppercaseWords(t) ==
    LET uc == [i \in RowIds(t) |-> CountUppercase(TextAt(t, i))]
        S == {i \in RowIds(t) : ~IsNa(LabelAt(t, i))}
        G == GroupLabels(t, S)
    IN [k \in {"total"} \cup {UppercaseKey(l) : l \in G} |->
           IF \E l \in G : UppercaseKey(l) = k
           THEN SumOver(uc, RowsOfLabel(t, CHOOSE l \in G : UppercaseKey(l) = k))
           ELSE SumOver(uc, RowIds(t))]

----------------------------------------------------------------------------
(* AntisemitismReportFormatter *)

\* category_map.get(str(k), k)
FormatKey(k) ==
    CASE k = "0" -> "non_antisemitic"
      [] k = "1" -> "antisemitic"
      [] k = "unclassified" -> "unspecified"
      [] k = "total" -> "total"
      [] OTHER -> k

\* {category_map.get(str(k), k): v for k, v in raw.items()} (the keys of the
\* statistics of this model map to distinct report keys)
FormatMapping(d) ==
    [k2 \in {FormatKey(k) : k \in DOMAIN d} |->
        d[CHOOSE k \in DOMAIN d : FormatKey(k) = k2]]

\* raw_results.get(name, {})
GetOr(d, name, default) == IF name \in DOMAIN d THEN d[name] ELSE default

\* AntisemitismReportFormatter.format on a mapping; longest_3_tweets is
\* f"longest_{config.TOP_N_LONGEST_TWEETS}_tweets"
Format(raw) ==
    [total_tweets |-> FormatMapping(GetOr(raw, "category_counts", EmptyDict)),
     average_length |-> FormatMapping(GetOr(raw, "average_length", EmptyDict)),
     longest_3_tweets |-> FormatMapping(GetOr(raw, "longest_texts_by_category", EmptyDict)),
     common_words |-> [total |-> GetOr(raw, "most_common_words", <<>>)],
     uppercase_words |-> FormatMapping(GetOr(raw, "uppercase_words_count", EmptyDict))]

\* The same comprehension with the order of raw.items() given by o: a later
\* item overwrites an earlier one that has the same report key
RECURSIVE FoldFormat(_, _, _, _)
FoldFormat(d, o, i, acc) ==
    IF i > Len(o) THEN acc
    ELSE FoldFormat(d, o, i + 1, DictPut(acc, FormatKey(o[i]), d[o[i]]))

FormatItems(d, o) == FoldFormat(d, o, 1, EmptyDict)

\* The orders in which a dict may hold its items (its insertion orders)
ItemOrders(d) == Perms(DOMAIN d)

\* AntisemitismReportFormatter.format on a mapping whose statistics hold
\* their items in the orders oc, oa, ol and ou
FormatIn(raw, oc, oa, ol, ou) ==
    [total_tweets |-> FormatItems(GetOr(raw, "category_counts", EmptyDict), oc),
     average_length |-> FormatItems(GetOr(raw, "average_length", EmptyDict), oa),
     longest_3_tweets |-> FormatItems(GetOr(raw, "longest_texts_by_category", EmptyDict), ol),
     common_words |-> [total |-> GetOr(raw, "most_common_words", <<>>)],
     uppercase_words |-> FormatItems(GetOr(raw, "uppercase_words_count", EmptyDict), ou)]

----------------------------------------------------------------------------
(* Values that may be absent *)

None == [some |-> FALSE]

Some(t) == [some |-> TRUE, t |-> t]

NoFile == [state |-> "none"]

----------------------------------------------------------------------------
(* DataExplorer: the calls, as steps *)

Returns(op, val) == ret' = [op |-> op, val |-> val]

\* A statistic stores its result under its name and returns it
StoreAndReturn(op, name, val) ==
    /\ exploration_results' = DictPut(exploration_results, name, val)
    /\ Returns(op, val)

\* An exception leaves the entry point
Raise(exc) ==
    /\ raised' = exc
    /\ pc' = "crashed"
    /\ UNCHANGED <<exploration_results, ret>>

get_count_by_category(next) ==
    /\ pc = "count"
    /\ trace' = Append(trace, "count")
    /\ IF ~HasColumn(df.t, CLASSIFICATION_COLUMN)
       THEN /\ Returns("count", EmptyDict)
            /\ UNCHANGED exploration_results
       ELSE \E o \in ValueCountsOrders(df.t) :
                StoreAndReturn("count", "category_counts", CountByCategory(df.t, o))
    /\ pc' = next
    /\ UNCHANGED <<file, df, raw_df, raised, processed_df, stage_failed, stages_run,
                   top_n, raw_results, report_df, files>>

\* temp_df = self.df in place of self.df.copy(): fillna and the word_count
\* column are written to the explorer's own table
calculate_average_word_count_without_copy(next) ==
    /\ pc = "average"
    /\ trace' = Append(trace, "average")
    /\ IF ~HasColumn(df.t, TEXT_COLUMN) \/ ~HasColumn(df.t, CLASSIFICATION_COLUMN)
       THEN /\ Returns("average", EmptyDict)
            /\ UNCHANGED <<exploration_results, raised, df>>
            /\ pc' = next
       ELSE IF StrAccessorRaises(df.t, TRUE)
       THEN Raise("AttributeError") /\ UNCHANGED df
       ELSE /\ StoreAndReturn("average", "average_length", AverageWordCount(df.t))
            /\ df' = Some([df.t EXCEPT
                      !.cols = @ \cup {"word_count"},
                      !.rows = [i \in 1..Len(@) |->
                                   IF IsNa(@[i].Text)
                                   THEN [@[i] EXCEPT !.Text = StrText(<<>>)]
                                   ELSE @[i]]])
            /\ pc' = next
            /\ UNCHANGED raised
    /\ UNCHANGED <<file, raw_df, processed_df, stage_failed, stages_run,
                   top_n, raw_results, report_df, files>>

calculate_average_word_count(next) ==
    /\ pc = "average"
    /\ trace' = Append(trace, "average")
    /\ IF ~HasColumn(df.t, TEXT_COLUMN) \/ ~HasColumn(df.t, CLASSIFICATION_COLUMN)
       THEN /\ Returns("average", EmptyDict)
            /\ UNCHANGED <<exploration_results, raised>>
            /\ pc' = next
       ELSE IF StrAccessorRaises(df.t, TRUE)
       THEN Raise("AttributeError")
       ELSE /\ StoreAndReturn("average", "average_length", AverageWordCount(df.t))
            /\ pc' = next
            /\ UNCHANGED raised
    /\ UNCHANGED <<file, df, raw_df, processed_df, stage_failed, stages_run,
                   top_n, raw_results, report_df, files>>

get_n_longest_texts_by_category(n, next) ==
    /\ pc = "longest"
    /\ trace' = Append(trace, "longest")
    /\ IF ~HasColumn(df.t, TEXT_COLUMN) \/ ~HasColumn(df.t, CLASSIFICATION_COLUMN)
       THEN /\ Returns("longest", EmptyDict)
            /\ UNCHANGED <<exploration_results, raised>>
            /\ pc' = next
       ELSE IF StrAccessorRaises(df.t, FALSE)
       THEN Raise("AttributeError")
       ELSE /\ \E o \in SortOrders(df.t) :
                   StoreAndReturn("longest", "longest_texts_by_category",
                                  NLongestTexts(df.t, o, n))
            /\ pc' = next
            /\ UNCHANGED raised
    /\ UNCHANGED <<file, df, raw_df, processed_df, stage_failed, stages_run,
                   top_n, raw_results, report_df, files>>

get_most_common_words(n, next) ==
    /\ pc = "words"
    /\ trace' = Append(trace, "words")
    /\ IF ~HasColumn(df.t, TEXT_COLUMN)
       THEN /\ Returns("words", <<>>)
            /\ UNCHANGED <<exploration_results, raised>>
            /\ pc' = next
       ELSE IF StrAccessorRaises(df.t, FALSE)
       THEN Raise("AttributeError")
       ELSE IF AllWords(df.t) = <<>>
       THEN /\ Returns("words", <<>>)
            /\ UNCHANGED <<exploration_results, raised>>
            /\ pc' = next
       ELSE /\ \E o \in WordOrders(AllWords(df.t)) :
                   StoreAndReturn("words", "most_common_words", MostCommon(o, n))
            /\ pc' = next
            /\ UNCHANGED raised
    /\ UNCHANGED <<file, df, raw_df, processed_df, stage_failed, stages_run,
                   top_n, raw_results, report_df, files>>

count_uppercase_words_by_category(next) ==
    /\ pc = "uppercase"
    /\ trace' = Append(trace, "uppercase")
    /\ IF ~HasColumn(df.t, TEXT_COLUMN) \/ ~HasColumn(df.t, CLASSIFICATION_COLUMN)
       THEN /\ Returns("uppercase", EmptyDict)
            /\ UNCHANGED exploration_results
       ELSE StoreAndReturn("uppercase", "uppercase_words_count", UppercaseWords(df.t))
    /\ pc' = next
    /\ UNCHANGED <<file, df, raw_df, raised, processed_df, stage_failed, stages_run,
                   top_n, raw_results, report_df, files>>

\* run_full_exploration returns self.exploration_results
run_full_exploration_return(next) ==
    /\ pc = "explored"
    /\ Returns("run_full_exploration", exploration_results)
    /\ pc' = next
    /\ UNCHANGED <<file, df, raw_df, exploration_results, raised, processed_df,
                   stage_failed, stages_run, top_n, raw_results, report_df, files, trace>>

\* The client of a DataExplorer calls one of its statistics, or goes on to
\* run the cleaning pipeline on the same file
call_statistic ==
    /\ pc = "idle"
    /\ \/ /\ Len(trace) < MaxCalls
          /\ pc' \in {"count", "average", "longest", "words", "uppercase"}
       \/ pc' = "pipeline_load"
    /\ UNCHANGED <<file, df, raw_df, exploration_results, ret, raised, processed_df,
                   stage_failed, stages_run, top_n, raw_results, report_df, files, trace>>

----------------------------------------------------------------------------
(* DataProcessor: the stages of run_processing_pipeline, as steps *)

\* dropna() without the subset: a row with any null value is dropped
DropNaLabel_AnyColumn(rows) ==
    SubSeqAt(rows, {i \in 1..Len(rows) : ~IsNa(rows[i].Biased) /\ ~IsNa(rows[i].Text)})

\* dropna(subset=[target_column]) on the rows
DropNaLabel(rows) ==
    SubSeqAt(rows, {i \in 1..Len(rows) : ~IsNa(rows[i].Biased)})

\* Series.str.lower() on one value of an object column
LowerCell(c) == IF c.kind = "str" THEN StrText(Lower(c.s)) ELSE NullText

\* The pattern [^\w] in place of [^\w\s]: whitespace is deleted too
PunctCell_SpacesToo(c) == IF c.kind = "str" THEN StrText(SelectSeq(c.s, IsWordChar)) ELSE c

\* lambda x: re.sub(r'[^\w\s]', '', x) if isinstance(x, str) else x
PunctCell(c) == IF c.kind = "str" THEN StrText(StripPunct(c.s)) ELSE c

\* self.processed_df[text_column] = self.processed_df[text_column].str.lower()
LowerRows(rows) ==
    [i \in 1..Len(rows) |-> [rows[i] EXCEPT !.Text = LowerCell(rows[i].Text)]]

\* self.processed_df[text_column] = self.processed_df[text_column].apply(...)
PunctRows(rows) ==
    [i \in 1..Len(rows) |-> [rows[i] EXCEPT !.Text = PunctCell(rows[i].Text)]]

\* run_processing_pipeline returns None
PipelineReturnsNone(stage) ==
    /\ stage_failed' = stage_failed \cup {stage}
    /\ Returns("run_processing_pipeline", None)
    /\ pc' = "pipeline_returned"

\* load_csv inside run_processing_pipeline
load_csv ==
    /\ pc = "pipeline_load"
    /\ trace' = Append(trace, "pipeline")
    /\ IF file.ok
       THEN /\ raw_df' = Some(file.t)
            /\ processed_df' = Some(file.t)
            /\ stages_run' = Append(stages_run, "load")
            /\ pc' = "select"
            /\ UNCHANGED <<stage_failed, ret>>
       ELSE /\ PipelineReturnsNone("load")
            /\ UNCHANGED <<raw_df, processed_df, stages_run>>
    /\ UNCHANGED <<file, df, exploration_results, raised, top_n, raw_results,
                   report_df, files>>

select_columns ==
    /\ pc = "select"
    /\ IF ~processed_df.some \/ ~(Range(RELEVANT_COLUMNS) \subseteq processed_df.t.cols)
       THEN /\ PipelineReturnsNone("select")
            /\ UNCHANGED <<processed_df, stages_run>>
       ELSE /\ processed_df' = Some([processed_df.t EXCEPT !.cols = Range(RELEVANT_COLUMNS)])
            /\ stages_run' = Append(stages_run, "select")
            /\ pc' = "dropna"
            /\ UNCHANGED <<stage_failed, ret>>
    /\ UNCHANGED <<file, df, raw_df, exploration_results, raised, top_n, raw_results,
                   report_df, files, trace>>

remove_unclassified_rows ==
    /\ pc = "dropna"
    /\ IF ~processed_df.some \/ ~HasColumn(processed_df.t, CLASSIFICATION_COLUMN)
       THEN /\ PipelineReturnsNone("dropna")
            /\ UNCHANGED <<processed_df, stages_run>>
       ELSE /\ processed_df' =
                   Some([processed_df.t EXCEPT !.rows = DropNaLabel(processed_df.t.rows)])
            /\ stages_run' = Append(stages_run, "dropna")
            /\ pc' = "lower"
            /\ UNCHANGED <<stage_failed, ret>>
    /\ UNCHANGED <<file, df, raw_df, exploration_results, raised, top_n, raw_results,
                   report_df, files, trace>>

\* The AttributeError of .str on a numeric column is logged and the table is
\* returned as it is (no return in that except clause)
convert_to_lowercase ==
    /\ pc = "lower"
    /\ IF ~processed_df.some \/ ~HasColumn(processed_df.t, TEXT_COLUMN)
       THEN /\ PipelineReturnsNone("lower")
            /\ UNCHANGED <<processed_df, stages_run>>
       ELSE IF StrAccessorRaises(processed_df.t, FALSE)
       THEN /\ stage_failed' = stage_failed \cup {"lower"}
            /\ pc' = "punct"
            /\ UNCHANGED <<processed_df, stages_run, ret>>
       ELSE /\ processed_df' =
                   Some([processed_df.t EXCEPT !.rows = LowerRows(processed_df.t.rows)])
            /\ stages_run' = Append(stages_run, "lower")
            /\ pc' = "punct"
            /\ UNCHANGED <<stage_failed, ret>>
    /\ UNCHANGED <<file, df, raw_df, exploration_results, raised, top_n, raw_results,
                   report_df, files, trace>>

\* The last stage; run_processing_pipeline then returns self.processed_df
remove_punctuation ==
    /\ pc = "punct"
    /\ IF ~processed_df.some \/ ~HasColumn(processed_df.t, TEXT_COLUMN)
       THEN /\ PipelineReturnsNone("punct")
            /\ UNCHANGED <<processed_df, stages_run>>
       ELSE /\ processed_df' =
                   Some([processed_df.t EXCEPT !.rows = PunctRows(processed_df.t.rows)])
            /\ stages_run' = Append(stages_run, "punct")
            /\ Returns("run_processing_pipeline", processed_df')
            /\ pc' = "pipeline_returned"
            /\ UNCHANGED stage_failed
    /\ UNCHANGED <<file, df, raw_df, exploration_results, raised, top_n, raw_results,
                   report_df, files, trace>>

----------------------------------------------------------------------------
(* ReportGenerator: generate_all_reports, as steps *)

\* generate_csv_report: an exception of to_csv is caught and logged
generate_csv_report ==
    /\ pc = "csv"
    /\ trace' = Append(trace, "csv")
    /\ \E ok \in BOOLEAN :
           files' = [files EXCEPT !.csv =
                        IF ok /\ report_df.some
                        THEN [state |-> "written", content |-> report_df.t]
                        ELSE [state |-> "failed"]]
    /\ pc' = "json"
    /\ UNCHANGED <<file, df, raw_df, exploration_results, ret, raised, processed_df,
                   stage_failed, stages_run, top_n, raw_results, report_df>>

\* generate_json_report: formatter.format is called before the try block, so
\* its exception leaves generate_all_reports; an exception of the write is
\* caught and logged
generate_json_report ==
    /\ pc = "json"
    /\ trace' = Append(trace, "json")
    /\ IF ~raw_results.ok
       THEN /\ raised' = "AttributeError"
            /\ pc' = "crashed"
            /\ UNCHANGED files
       ELSE /\ \E ok \in BOOLEAN :
                   files' = [files EXCEPT !.json =
                                IF ok
                                THEN [state |-> "written", content |-> Format(raw_results.val)]
                                ELSE [state |-> "failed"]]
            /\ pc' = "reports_done"
            /\ UNCHANGED raised
    /\ UNCHANGED <<file, df, raw_df, exploration_results, ret, processed_df,
                   stage_failed, stages_run, top_n, raw_results, report_df>>

----------------------------------------------------------------------------
(* AntisemitismReportFormatter.format, as a step *)

format ==
    /\ pc = "format"
    /\ raw_results.ok
    /\ LET raw == raw_results.val
       IN \E oc \in ItemOrders(GetOr(raw, "category_counts", EmptyDict)),
             oa \in ItemOrders(GetOr(raw, "average_length", EmptyDict)),
             ol \in ItemOrders(GetOr(raw, "longest_texts_by_category", EmptyDict)),
             ou \in ItemOrders(GetOr(raw, "uppercase_words_count", EmptyDict)) :
              Returns("format", FormatIn(raw, oc, oa, ol, ou))
    /\ pc' = "formatted"
    /\ UNCHANGED <<file, df, raw_df, exploration_results, raised, processed_df,
                   stage_failed, stages_run, top_n, raw_results, report_df, files, trace>>

----------------------------------------------------------------------------
(* main *)

\* loader_for_exploration.load_csv(), the None check and DataExplorer(df=raw_df)
main_load ==
    /\ pc = "main_load"
    /\ trace' = Append(trace, "load")
    /\ IF file.ok
       THEN /\ df' = Some(file.t)
            /\ exploration_results' = EmptyDict
            /\ pc' = "count"
       ELSE /\ pc' = "exit"
            /\ UNCHANGED <<df, exploration_results>>
    /\ UNCHANGED <<file, raw_df, ret, raised, processed_df, stage_failed, stages_run,
                   top_n, raw_results, report_df, files>>

\* main without the None check on cleaned_df
main_check_cleaned_without_none_check ==
    /\ pc = "pipeline_returned"
    /\ raw_results' = [ok |-> TRUE, val |-> exploration_results]
    /\ report_df' = ret.val
    /\ pc' = "csv"
    /\ UNCHANGED <<file, df, raw_df, exploration_results, ret, raised, processed_df,
                   stage_failed, stages_run, top_n, files, trace>>

\* The None check on cleaned_df and the construction of the ReportGenerator
main_check_cleaned ==
    /\ pc = "pipeline_returned"
    /\ IF ~ret.val.some
       THEN /\ pc' = "exit"
            /\ UNCHANGED <<raw_results, report_df>>
       ELSE /\ raw_results' = [ok |-> TRUE, val |-> exploration_results]
            /\ report_df' = ret.val
            /\ pc' = "csv"
    /\ UNCHANGED <<file, df, raw_df, exploration_results, ret, raised, processed_df,
                   stage_failed, stages_run, top_n, files, trace>>

----------------------------------------------------------------------------
(* The tables read_csv can give *)

Str_OK == <<"O", "K">>

Str_a_b == <<"a", " ", "b", "!">>

\* The sequences of at most m rows with texts from T and labels from L
RowSeqs(T, L, m) == UNION {[1..n -> [Text : T, Biased : L]] : n \in 0..m}

\* One dtype per column
TextColumnOK(rows) ==
    \/ rows = <<>>
    \/ /\ \A i \in 1..Len(rows) : rows[i].Text.kind \in {"null", "str"}
       /\ \E i \in 1..Len(rows) : rows[i].Text.kind = "str"
    \/ \A i \in 1..Len(rows) : rows[i].Text.kind \in {"null", "num"}

LabelColumnOK(rows) ==
    \/ rows = <<>>
    \/ /\ \A i \in 1..Len(rows) : rows[i].Biased.kind \in {"null", "str"}
       /\ \E i \in 1..Len(rows) : rows[i].Biased.kind = "str"
    \/ \A i \in 1..Len(rows) : rows[i].Biased.kind \in {"null", "float"}
    \/ \A i \in 1..Len(rows) : rows[i].Biased.kind = "int"

TextIsObject(rows) == rows = <<>> \/ \E i \in 1..Len(rows) : rows[i].Text.kind = "str"

\* The table of the rows with the columns cols: a column that is not there
\* holds nothing
MakeTable(rows, cols) ==
    [cols |-> cols,
     textObj |-> IF "Text" \in cols THEN TextIsObject(rows) ELSE TRUE,
     rows |-> [i \in 1..Len(rows) |->
                  [Text |-> IF "Text" \in cols THEN rows[i].Text ELSE NullText,
                   Biased |-> IF "Biased" \in cols THEN rows[i].Biased ELSE NullLabel]]]

Tables(T, L, C, m) ==
    {MakeTable(rows, cols) :
        rows \in {r \in RowSeqs(T, L, m) : TextColumnOK(r) /\ LabelColumnOK(r)},
        cols \in C}

MainTexts == {NullText, NumText, StrText(Str_OK), StrText(Str_a_b)}

MainLabels ==
    {NullLabel, StrLabel("1"), StrLabel("total"), StrLabel("unclassified"),
     FloatLabel(2), FloatLabel(1), IntLabel(1)}

MainColumns == {{"Text", "Biased"}, {"Text", "Biased", "Other"}, {"Text"}, {"Biased"}}

MainFiles ==
    {[ok |-> FALSE]} \cup {[ok |-> TRUE, t |-> t] : t \in Tables(MainTexts, MainLabels, MainColumns, MaxRows)}

----------------------------------------------------------------------------
(* The run of main() *)

InitRest ==
    /\ df = None
    /\ raw_df = None
    /\ exploration_results = EmptyDict
    /\ ret = [op |-> "none"]
    /\ raised = "none"
    /\ processed_df = None
    /\ stage_failed = {}
    /\ stages_run = <<>>
    /\ raw_results = [ok |-> TRUE, val |-> EmptyDict]
    /\ report_df = None
    /\ files = [csv |-> NoFile, json |-> NoFile]
    /\ trace = <<>>

Init ==
    /\ pc = "main_load"
    /\ file \in MainFiles
    /\ top_n = TOP_N_LONGEST_TWEETS
    /\ InitRest

Next ==
    \/ main_load
    \/ get_count_by_category("average")
    \/ calculate_average_word_count("longest")
    \/ get_n_longest_texts_by_category(TOP_N_LONGEST_TWEETS, "words")
    \/ get_most_common_words(TOP_N_COMMON_WORDS, "uppercase")
    \/ count_uppercase_words_by_category("explored")
    \/ run_full_exploration_return("pipeline_load")
    \/ load_csv
    \/ select_columns
    \/ remove_unclassified_rows
    \/ convert_to_lowercase
    \/ remove_punctuation
    \/ main_check_cleaned
    \/ generate_csv_report
    \/ generate_json_report

Spec == Init /\ [][Next]_vars

----------------------------------------------------------------------------
(* The run of DataProcessor.run_processing_pipeline on its own *)

InitPipeline ==
    /\ pc = "pipeline_load"
    /\ file \in MainFiles
    /\ top_n = TOP_N_LONGEST_TWEETS
    /\ InitRest

NextPipeline ==
    \/ load_csv
    \/ select_columns
    \/ remove_unclassified_rows
    \/ convert_to_lowercase
    \/ remove_punctuation

SpecPipeline == InitPipeline /\ [][NextPipeline]_vars

----------------------------------------------------------------------------
(* The run of ReportGenerator.generate_all_reports on its own *)

Str_ok == <<"o", "k">>

ReportTables ==
    Tables({NullText, StrText(Str_ok), StrText(<<"a", " ", "b">>)},
           {StrLabel("0"), StrLabel("1"), FloatLabel(2)},
           {{"Text", "Biased"}}, MaxRows)

\* What the caller passed as exploration_results: a bundle of statistics, or
\* a value that is no mapping (None)
ReportResults ==
    {[ok |-> FALSE],
     [ok |-> TRUE, val |-> EmptyDict],
     [ok |-> TRUE, val |-> [category_counts |-> [total |-> 1]]],
     [ok |-> TRUE, val |-> [most_common_words |-> <<Str_ok>>]]}

InitReport ==
    /\ pc = "csv"
    /\ file = [ok |-> FALSE]
    /\ df = None
    /\ raw_df = None
    /\ exploration_results = EmptyDict
    /\ ret = [op |-> "none"]
    /\ raised = "none"
    /\ processed_df = None
    /\ stage_failed = {}
    /\ stages_run = <<>>
    /\ top_n = TOP_N_LONGEST_TWEETS
    /\ raw_results \in ReportResults
    /\ report_df \in {Some(t) : t \in ReportTables}
    /\ files = [csv |-> NoFile, json |-> NoFile]
    /\ trace = <<>>

NextReport ==
    \/ generate_csv_report
    \/ generate_json_report

SpecReport == InitReport /\ [][NextReport]_vars

----------------------------------------------------------------------------
(* One call of get_n_longest_texts_by_category *)

Str_b_a == <<"b", " ", "a">>

LongestTables ==
    Tables({NullText, NumText, StrText(Str_OK), StrText(Str_a_b), StrText(Str_b_a)},
           {NullLabel, StrLabel("0"), StrLabel("1"), FloatLabel(2)},
           {{"Text", "Biased"}}, MaxStatRows)

InitStatistic(at, T) ==
    /\ pc = at
    /\ file = [ok |-> FALSE]
    /\ df \in {Some(t) : t \in T}
    /\ top_n \in 0..MaxN
    /\ raw_df = None
    /\ exploration_results = EmptyDict
    /\ ret = [op |-> "none"]
    /\ raised = "none"
    /\ processed_df = None
    /\ stage_failed = {}
    /\ stages_run = <<>>
    /\ raw_results = [ok |-> TRUE, val |-> EmptyDict]
    /\ report_df = None
    /\ files = [csv |-> NoFile, json |-> NoFile]
    /\ trace = <<>>

InitLongest == InitStatistic("longest", LongestTables)

NextLongest == get_n_longest_texts_by_category(top_n, "done")

SpecLongest == InitLongest /\ [][NextLongest]_vars

----------------------------------------------------------------------------
(* One call of get_most_common_words *)

Str_aab == <<"a", " ", "a", " ", "b">>

Str_bbb == <<"b", " ", "b", " ", "b">>

Str_Ab == <<"A", "!", " ", " ", "b", ",">>

WordsTables ==
    Tables({NullText, NumText, StrText(Str_aab), StrText(Str_bbb), StrText(Str_Ab),
            StrText(<<"!">>)},
           {StrLabel("1")},
           {{"Text", "Biased"}, {"Biased"}}, MaxStatRows)

InitWords == InitStatistic("words", WordsTables)

NextWords == get_most_common_words(top_n, "done")

SpecWords == InitWords /\ [][NextWords]_vars

----------------------------------------------------------------------------
(* One call of count_uppercase_words_by_category *)

Str_Ok_B == <<"O", "k", " ", "B">>

Str_ok_1 == <<"o", "k", " ", "1">>

UppercaseTables ==
    Tables({NullText, NumText, StrText(Str_OK), StrText(Str_Ok_B), StrText(Str_ok_1)},
           {NullLabel, StrLabel("0"), StrLabel("1"), StrLabel("total"), FloatLabel(2)},
           {{"Text", "Biased"}, {"Text"}}, MaxStatRows)

InitUppercase == InitStatistic("uppercase", UppercaseTables)

NextUppercase == count_uppercase_words_by_category("done")

SpecUppercase == InitUppercase /\ [][NextUppercase]_vars

----------------------------------------------------------------------------
(* One call of calculate_average_word_count *)

AverageTables ==
    Tables({NullText, NumText, StrText(Str_OK), StrText(Str_a_b)},
           {NullLabel, StrLabel("0"), StrLabel("1"), StrLabel("total"), FloatLabel(2)},
           {{"Text", "Biased"}, {"Biased"}}, MaxStatRows)

InitAverage == InitStatistic("average", AverageTables)

NextAverage == calculate_average_word_count("done")

SpecAverage == InitAverage /\ [][NextAverage]_vars

----------------------------------------------------------------------------
(* The run of DataProcessor.run_processing_pipeline on files of texts *)

Str_Ok_B_bang == <<"O", "k", " ", "B", "!">>

CleanFiles ==
    {[ok |-> FALSE]} \cup
    {[ok |-> TRUE, t |-> t] :
        t \in Tables({NullText, NumText, StrText(Str_Ok_B_bang), StrText(Str_ok)},
                     {NullLabel, StrLabel("0"), StrLabel("1")},
                     {{"Text", "Biased"}, {"Text", "Biased", "Other"}, {"Text"}},
                     MaxStatRows)}

InitClean ==
    /\ pc = "pipeline_load"
    /\ file \in CleanFiles
    /\ top_n = TOP_N_LONGEST_TWEETS
    /\ InitRest

NextClean ==
    \/ load_csv
    \/ select_columns
    \/ remove_unclassified_rows
    \/ convert_to_lowercase
    \/ remove_punctuation

SpecClean == InitClean /\ [][NextClean]_vars

----------------------------------------------------------------------------
(* One call of DataProcessor.remove_punctuation on the table as loaded *)

Str_e_acute_bang == <<"a", " ", "e_acute", "!">>

Str_A_1 == <<"A", "_", "1", ",", "b">>

PunctTables ==
    Tables({NullText, NumText, StrText(Str_a_b), StrText(Str_e_acute_bang), StrText(Str_A_1)},
           {StrLabel("1")},
           {{"Text", "Biased"}, {"Biased"}}, MaxStatRows)

InitPunct ==
    /\ pc = "punct"
    /\ file = [ok |-> FALSE]
    /\ df = None
    /\ raw_df \in {None} \cup {Some(t) : t \in PunctTables}
    /\ processed_df = raw_df
    /\ exploration_results = EmptyDict
    /\ ret = [op |-> "none"]
    /\ raised = "none"
    /\ stage_failed = {}
    /\ stages_run = <<>>
    /\ top_n = TOP_N_LONGEST_TWEETS
    /\ raw_results = [ok |-> TRUE, val |-> EmptyDict]
    /\ report_df = None
    /\ files = [csv |-> NoFile, json |-> NoFile]
    /\ trace = <<>>

NextPunct == remove_punctuation

SpecPunct == InitPunct /\ [][NextPunct]_vars

----------------------------------------------------------------------------
(* One call of AntisemitismReportFormatter.format *)

\* The bundle with the statistics that are given (a statistic given as
\* [has |-> FALSE] is absent)
Bundle(c, a, l, w, u) ==
    LET given == [category_counts |-> c, average_length |-> a,
                  longest_texts_by_category |-> l, most_common_words |-> w,
                  uppercase_words_count |-> u]
    IN [k \in {x \in DOMAIN given : given[x].has} |-> given[k].val]

Absent == [has |-> FALSE]

Given(v) == [has |-> TRUE, val |-> v]

FormatBundles ==
    {Bundle(c, a, l, w, u) :
        c \in {Absent, Given(EmptyDict), Given([total |-> 0]),
               Given(("0" :> 1) @@ ("1" :> 2) @@ ("total" :> 3)),
               Given(("1" :> 2) @@ ("antisemitic" :> 1) @@ ("total" :> 3)),
               Given(("unclassified" :> 1) @@ ("2" :> 1) @@ ("total" :> 2))},
        a \in {Absent, Given([total |-> NaN]),
               Given(("1" :> 150) @@ ("total" :> 150)),
               Given(("0" :> 100) @@ ("non_antisemitic" :> 200) @@ ("total" :> 150))},
        l \in {Absent, Given(EmptyDict), Given(("1" :> <<Str_a_b, Str_OK>>) @@ ("2" :> <<Str_OK>>))},
        w \in {Absent, Given(<<>>), Given(<<Str_ok>>)},
        u \in {Absent, Given(("1" :> 1) @@ ("total" :> 1)),
               Given(("unclassified" :> 1) @@ ("unspecified" :> 0) @@ ("total" :> 1))}}

InitFormat ==
    /\ pc = "format"
    /\ file = [ok |-> FALSE]
    /\ df = None
    /\ raw_df = None
    /\ exploration_results = EmptyDict
    /\ ret = [op |-> "none"]
    /\ raised = "none"
    /\ processed_df = None
    /\ stage_failed = {}
    /\ stages_run = <<>>
    /\ top_n = TOP_N_LONGEST_TWEETS
    /\ raw_results \in {[ok |-> TRUE, val |-> b] : b \in FormatBundles}
    /\ report_df = None
    /\ files = [csv |-> NoFile, json |-> NoFile]
    /\ trace = <<>>

NextFormat == format

SpecFormat == InitFormat /\ [][NextFormat]_vars

----------------------------------------------------------------------------
(* A DataExplorer on the loaded table, its statistics called in any order,  *)
(* and then the cleaning pipeline on the same file                          *)

FrameFiles ==
    {[ok |-> TRUE, t |-> t] :
        t \in Tables({NullText, NumText, StrText(Str_OK), StrText(Str_a_b)},
                     {NullLabel, StrLabel("1")},
                     {{"Text", "Biased"}, {"Text"}}, MaxRows)}

InitFrame ==
    /\ pc = "idle"
    /\ file \in FrameFiles
    /\ df = Some(file.t)
    /\ top_n = TOP_N_LONGEST_TWEETS
    /\ raw_df = None
    /\ exploration_results = EmptyDict
    /\ ret = [op |-> "none"]
    /\ raised = "none"
    /\ processed_df = None
    /\ stage_failed = {}
    /\ stages_run = <<>>
    /\ raw_results = [ok |-> TRUE, val |-> EmptyDict]
    /\ report_df = None
    /\ files = [csv |-> NoFile, json |-> NoFile]
    /\ trace = <<>>

NextFrame ==
    \/ call_statistic
    \/ get_count_by_category("idle")
    \/ calculate_average_word_count("idle")
    \/ get_n_longest_texts_by_category(TOP_N_LONGEST_TWEETS, "idle")
    \/ get_most_common_words(TOP_N_COMMON_WORDS, "idle")
    \/ count_uppercase_words_by_category("idle")
    \/ load_csv
    \/ select_columns
    \/ remove_unclassified_rows
    \/ convert_to_lowercase
    \/ remove_punctuation

SpecFrame == InitFrame /\ [][NextFrame]_vars

----------------------------------------------------------------------------
(* Properties *)

IsPrefix(a, b) == Len(a) <= Len(b) /\ \A i \in 1..Len(a) : a[i] = b[i]

\* The sum of the values of the mapping d at the keys K
RECURSIVE SumDict(_, _)
SumDict(d, K) ==
    IF K = {} THEN 0
    ELSE LET k == CHOOSE x \in K : TRUE IN d[k] + SumDict(d, K \ {k})

BothColumns(t) == HasColumn(t, TEXT_COLUMN) /\ HasColumn(t, CLASSIFICATION_COLUMN)

Statistics == {"count", "average", "longest", "words", "uppercase"}

MainOrder ==
    <<"load", "count", "average", "longest", "words", "uppercase", "pipeline", "csv", "json">>

AllStages == <<"load", "select", "dropna", "lower", "punct">>

NoFileWritten == files.csv.state = "none" /\ files.json.state = "none"

\* C1: after get_count_by_category on a table that has the category column,
\* the 'total' entry of the returned mapping is the number of rows, and the
\* values of the other entries sum to the number of rows.
C1_CountSumsToRows ==
    (ret.op = "count" /\ HasColumn(df.t, CLASSIFICATION_COLUMN)) =>
        /\ "total" \in DOMAIN ret.val
        /\ ret.val["total"] = Len(df.t.rows)
        /\ SumDict(ret.val, DOMAIN ret.val \ {"total"}) = Len(df.t.rows)

\* C2: main takes its steps in the order load, exploration of the loaded
\* table (five statistics), cleaning pipeline, CSV report, JSON report; after
\* a failed load nothing is explored, cleaned or written; after a pipeline
\* that returned None nothing is written; a report file is touched only when
\* the load succeeded and every stage of the pipeline was applied without a
\* failure.
C2_MainOrderAndAborts ==
    /\ IsPrefix(trace, MainOrder)
    /\ (Len(trace) >= 2 => df = Some(file.t))
    /\ (trace # <<>> /\ ~file.ok) =>
           /\ trace = <<"load">>
           /\ DOMAIN exploration_results = {}
           /\ ~processed_df.some
           /\ NoFileWritten
    /\ (ret.op = "run_processing_pipeline" /\ ~ret.val.some) => NoFileWritten
    /\ ~NoFileWritten =>
           /\ file.ok
           /\ stage_failed = {}
           /\ stages_run = AllStages
           /\ ret.op = "run_processing_pipeline"
           /\ ret.val.some

C2_ReportsWritten ==
    /\ pc = "reports_done"
    /\ files.csv.state = "written"
    /\ files.json.state = "written"
    /\ Len(file.t.rows) = MaxRows

\* The position of a stage in the pipeline
StageIndex(st) == CHOOSE i \in 1..Len(AllStages) : AllStages[i] = st

\* C3: in run_processing_pipeline no stage is applied after a stage that
\* failed, and a pipeline in which a stage failed returns None.
C3_StageFailureAborts ==
    /\ \A f \in stage_failed : \A i \in 1..Len(stages_run) :
           StageIndex(stages_run[i]) < StageIndex(f)
    /\ (ret.op = "run_processing_pipeline" /\ stage_failed # {}) => ~ret.val.some

\* C4: no failure of a statistic leaves run_full_exploration as an
\* exception: after each statistic the next one is run.
C4_StatisticFailureIsPartial ==
    ~(pc = "crashed" /\ trace # <<>> /\ trace[Len(trace)] \in Statistics)

\* C5: generate_all_reports raises nothing to its caller, attempts both
\* writes whatever the outcome of the first, and the attempt on the JSON
\* report leaves the CSV file as the CSV write left it.
C5_ReportsIndependent ==
    /\ raised = "none"
    /\ pc # "crashed"
    /\ (pc = "reports_done" => trace = <<"csv", "json">>)
    /\ ("json" \in Range(trace) => files.csv.state # "none")

\* C6: after the exploration of a table that has both columns, the 'total'
\* entry of category_counts, average_length and uppercase_words_count is the
\* aggregate over all rows: the row count, the mean word count of all rows,
\* the number of upper-case tokens of all rows.
C6_TotalIsAggregate ==
    (pc = "explored" /\ BothColumns(df.t)) =>
        LET t == df.t
            uc == [i \in RowIds(t) |-> CountUppercase(TextAt(t, i))]
        IN /\ exploration_results["category_counts"]["total"] = Len(t.rows)
           /\ exploration_results["average_length"]["total"] = MeanWordCount(t, RowIds(t))
           /\ exploration_results["uppercase_words_count"]["total"] = SumOver(uc, RowIds(t))

\* C7: after the exploration of a table that has both columns, the keys of
\* average_length and of uppercase_words_count other than 'total' are the
\* keys of category_counts other than 'total' and 'unclassified', and the
\* keys of longest_texts_by_category are among them.
C7_KeysAlign ==
    (pc = "explored" /\ BothColumns(df.t)) =>
        LET cats == DOMAIN exploration_results["category_counts"] \ {"total", "unclassified"}
        IN /\ DOMAIN exploration_results["average_length"] \ {"total"} = cats
           /\ DOMAIN exploration_results["uppercase_words_count"] \ {"total"} = cats
           /\ DOMAIN exploration_results["longest_texts_by_category"] \subseteq cats

\* The key of a label as the specification's CategoryKey gives it: an
\* integral float as its integer, anything else as its string
CategoryKeyOf(l) ==
    IF l.kind = "float" /\ l.h % 2 = 0 THEN IntStr(l.h \div 2) ELSE StrOf(l)

\* The rows of category k that have a text and a label
CategoryRows(t, k) ==
    {i \in RowIds(t) :
        ~IsNa(TextAt(t, i)) /\ ~IsNa(LabelAt(t, i)) /\ CategoryKeyOf(LabelAt(t, i)) = k}

\* The number of whitespace-separated tokens of a string
Words(x) == Len(Split(x))

\* C8: get_n_longest_texts_by_category returns, for each category, at most
\* n texts, each the text of a row of that category with a text and a label
\* (no row used twice), in non-increasing order of word count, and no text
\* of the category that was left out has more words than a returned one.
C8_LongestTexts ==
    (ret.op = "longest") =>
        LET t == df.t
            r == ret.val
        IN \A k \in DOMAIN r :
            LET rows == CategoryRows(t, k)
                InList(x) == Cardinality({p \in 1..Len(r[k]) : r[k][p] = x})
                InRows(x) == Cardinality({i \in rows : TextAt(t, i).s = x})
            IN /\ Len(r[k]) <= top_n
               /\ \A p \in 1..Len(r[k]) : InList(r[k][p]) <= InRows(r[k][p])
               /\ \A p, q \in 1..Len(r[k]) : p < q => Words(r[k][p]) >= Words(r[k][q])
               /\ \A i \in rows : \A p \in 1..Len(r[k]) :
                      InList(TextAt(t, i).s) < InRows(TextAt(t, i).s)
                          => Words(TextAt(t, i).s) <= Words(r[k][p])

\* A call with n = 1 on a category of two texts of different length: the
\* longer one is returned and the shorter one left out
C8_LongerKeptShorterOmitted ==
    /\ ret.op = "longest"
    /\ top_n = 1
    /\ "1" \in DOMAIN ret.val
    /\ ret.val["1"] = <<Str_a_b>>
    /\ \E i \in CategoryRows(df.t, "1") : TextAt(df.t, i).s = Str_OK

\* A sort that keeps rows of equal word count in their row order
StableOrder(t) ==
    CHOOSE o \in SortOrders(t) :
        \A a, b \in DOMAIN o :
            (a < b /\ WordCount(TextAt(t, o[a])) = WordCount(TextAt(t, o[b]))) => o[a] < o[b]

\* C9: get_n_longest_texts_by_category ranks rows of equal word count in
\* their row order: its result is the one a stable sort gives.
C9_TiesInRowOrder ==
    (ret.op = "longest" /\ BothColumns(df.t)) =>
        ret.val = NLongestTexts(df.t, StableOrder(df.t), top_n)

\* The tokens of the lowercased, punctuation-stripped concatenation of the
\* texts that are not null
ReferenceWords(t) ==
    LET ids == SubSeqAt([i \in RowIds(t) |-> i], {i \in RowIds(t) : ~IsNa(TextAt(t, i))})
    IN Split(StripPunct(Lower(Join([p \in 1..Len(ids) |-> TextAt(t, ids[p]).s]))))

\* C10: get_most_common_words returns at most n distinct tokens, each a
\* token of the lowercased, punctuation-stripped concatenation of the texts,
\* in non-increasing order of frequency, and no token left out is more
\* frequent than a returned one; texts 'a a b' and 'b b b' with n = 1 give
\* ['b'].
C10_MostCommonWords ==
    (ret.op = "words") =>
        LET r == ret.val
            ref == ReferenceWords(df.t)
            Freq(w) == Cardinality({p \in 1..Len(ref) : ref[p] = w})
        IN /\ Len(r) <= top_n
           /\ \A p, q \in 1..Len(r) : p # q => r[p] # r[q]
           /\ \A p \in 1..Len(r) : Freq(r[p]) >= 1
           /\ \A p, q \in 1..Len(r) : p < q => Freq(r[p]) >= Freq(r[q])
           /\ \A w \in Range(ref) \ Range(r) : \A p \in 1..Len(r) : Freq(w) <= Freq(r[p])
           /\ ([i \in RowIds(df.t) |-> TextAt(df.t, i)] = <<StrText(Str_aab), StrText(Str_bbb)>>
                   /\ top_n = 1) => r = <<(<<"b">>)>>

\* The scenario of the specification: 'a a b' and 'b b b' with n = 1
C10_Scenario ==
    /\ ret.op = "words"
    /\ top_n = 1
    /\ [i \in RowIds(df.t) |-> TextAt(df.t, i)] = <<StrText(Str_aab), StrText(Str_bbb)>>
    /\ ret.val = <<(<<"b">>)>>

\* The labels of the table that are not null
NonNullLabels(t) == {LabelAt(t, i) : i \in {j \in RowIds(t) : ~IsNa(LabelAt(t, j))}}

\* The number of tokens of a text that hold an upper-case letter and no
\* lower-case one; a text that is null has none
UpperTokens(c) ==
    IF c.kind # "str" THEN 0
    ELSE LET w == Split(c.s)
         IN Cardinality({p \in 1..Len(w) :
                /\ \E q \in 1..Len(w[p]) : w[p][q] \in UpperLetters
                /\ \A q \in 1..Len(w[p]) : w[p][q] \notin LowerLetters})

\* C11: count_uppercase_words_by_category on a table that has both columns
\* returns under 'total' the number of upper-case tokens of the raw texts of
\* all rows (a token with a lower-case letter is not counted, a null text
\* counts 0), under each non-null category the number over the rows of that
\* category and nothing else, so that the entries of the categories sum to
\* 'total' less the tokens of the rows whose category is null.
C11_UppercaseCounts ==
    (ret.op = "uppercase" /\ BothColumns(df.t)) =>
        LET t == df.t
            r == ret.val
            ut == [i \in RowIds(t) |-> UpperTokens(TextAt(t, i))]
            nullRows == {i \in RowIds(t) : IsNa(LabelAt(t, i))}
        IN /\ DOMAIN r = {"total"} \cup {CategoryKeyOf(l) : l \in NonNullLabels(t)}
           /\ r["total"] = SumOver(ut, RowIds(t))
           /\ \A l \in NonNullLabels(t) :
                  r[CategoryKeyOf(l)] = SumOver(ut, RowsOfLabel(t, l))
           /\ SumDict(r, DOMAIN r \ {"total"}) = r["total"] - SumOver(ut, nullRows)

\* The number of words of a text, a null text having none
TextWords(c) == IF c.kind = "str" THEN Len(Split(c.s)) ELSE 0

\* The mean of the words of the rows S in hundredths, rounded
MeanWords(t, S) ==
    Round2(SumOver([i \in RowIds(t) |-> TextWords(TextAt(t, i))], S), Cardinality(S))

\* The table with its rows in the order p
Reordered(t, p) == [t EXCEPT !.rows = [i \in 1..Len(p) |-> t.rows[p[i]]]]

\* C12: calculate_average_word_count on a table of texts that has both
\* columns returns under 'total' the mean number of words over all rows, a
\* null text counted as a row of 0 words, under each non-null category the
\* mean over the rows of that category, and the same mapping for every
\* order of the rows.
C12_AverageWordCount ==
    (ret.op = "average" /\ BothColumns(df.t) /\ df.t.textObj) =>
        LET t == df.t
            r == ret.val
        IN /\ DOMAIN r = {"total"} \cup {CategoryKeyOf(l) : l \in NonNullLabels(t)}
           /\ r["total"] = MeanWords(t, RowIds(t))
           /\ \A l \in NonNullLabels(t) :
                  r[CategoryKeyOf(l)] = MeanWords(t, RowsOfLabel(t, l))
           /\ \A p \in Perms(RowIds(t)) : AverageWordCount(Reordered(t, p)) = r

\* The string with its punctuation deleted, then lowercased
CleanText(x) == Lower(SelectSeq(x, LAMBDA c : IsWordChar(c) \/ IsSpace(c)))

Str_ok_b == <<"o", "k", " ", "b">>

\* The rows of the scenario of the specification, and the rows it gives
ScenarioRows ==
    <<[Text |-> StrText(Str_Ok_B_bang), Biased |-> StrLabel("1")],
      [Text |-> NullText, Biased |-> NullLabel],
      [Text |-> StrText(Str_ok), Biased |-> StrLabel("0")]>>

ScenarioCleaned ==
    <<[Text |-> StrText(Str_ok_b), Biased |-> StrLabel("1")],
      [Text |-> StrText(Str_ok), Biased |-> StrLabel("0")]>>

\* C13: a table returned by run_processing_pipeline has exactly the columns
\* Text and Biased and exactly the rows of the input whose label is not
\* null, in their order, each with its label unchanged and its text, when a
\* string, lowercased and stripped of punctuation; the rows ('Ok B!','1'),
\* (null, null), ('ok','0') give ('ok b','1'), ('ok','0').
C13_PipelineResult ==
    (ret.op = "run_processing_pipeline" /\ ret.val.some) =>
        LET in == file.t.rows
            out == ret.val.t.rows
            keptIds == {i \in 1..Len(in) : in[i].Biased.kind # "null"}
            kept == SubSeqAt(in, keptIds)
        IN /\ ret.val.t.cols = {"Text", "Biased"}
           /\ Len(out) = Len(kept)
           /\ \A i \in 1..Len(out) :
                  /\ out[i].Biased = kept[i].Biased
                  /\ out[i].Biased.kind # "null"
                  /\ kept[i].Text.kind = "str" =>
                         out[i].Text = StrText(CleanText(kept[i].Text.s))
           /\ (in = ScenarioRows => out = ScenarioCleaned)

\* The scenario of the specification has been cleaned
C13_Scenario ==
    /\ ret.op = "run_processing_pipeline"
    /\ ret.val.some
    /\ file.t.rows = ScenarioRows
    /\ ret.val.t.rows = ScenarioCleaned
    /\ stages_run = AllStages

\* The characters of [A-Za-z0-9_] among those of the model
AsciiWordChars == {"a", "b", "o", "k", "A", "B", "O", "K", "1", "_"}

\* The letters, digits and underscore of the model, ASCII or not
WordChars == AsciiWordChars \cup {"e_acute"}

\* After remove_punctuation every string of the text column is its original
\* with exactly the characters outside Keep deleted, and every other value
\* is unchanged
PunctuationRemoved(Keep) ==
    (stages_run = <<"punct">>) =>
        LET before == raw_df.t.rows
            after == processed_df.t.rows
        IN /\ Len(after) = Len(before)
           /\ \A i \in 1..Len(before) :
                  /\ after[i].Biased = before[i].Biased
                  /\ IF before[i].Text.kind = "str"
                     THEN /\ after[i].Text.kind = "str"
                          /\ \A q \in 1..Len(after[i].Text.s) : after[i].Text.s[q] \in Keep
                          /\ after[i].Text.s = SelectSeq(before[i].Text.s, LAMBDA c : c \in Keep)
                     ELSE after[i].Text = before[i].Text

\* C14 as stated: after remove_punctuation every string of the text column
\* consists only of characters of [A-Za-z0-9_] and whitespace and is its
\* original with exactly the other characters deleted; every value that is
\* no string is unchanged.
C14_OnlyAsciiWordChars == PunctuationRemoved(AsciiWordChars \cup Whitespace)

\* C14 as amended: after remove_punctuation every string of the text column
\* consists only of word characters (letters and digits of any script, and
\* the underscore) and whitespace and is its original with exactly the
\* other characters deleted, in order; every value that is no string is
\* unchanged.
C14_OnlyWordChars == PunctuationRemoved(WordChars \cup Whitespace)

\* A table with a null text and a text holding a letter outside ASCII, a
\* space and punctuation has been stripped
C14_Stripped ==
    /\ stages_run = <<"punct">>
    /\ \E i \in 1..Len(raw_df.t.rows) :
           /\ raw_df.t.rows[i].Text = StrText(Str_e_acute_bang)
           /\ processed_df.t.rows[i].Text = StrText(<<"a", " ", "e_acute">>)
    /\ \E i \in 1..Len(raw_df.t.rows) :
           /\ raw_df.t.rows[i].Text = NullText
           /\ processed_df.t.rows[i].Text = NullText

\* The report name of a category key: the lookup of the specification
Lookup(k) ==
    IF k = "0" THEN "non_antisemitic"
    ELSE IF k = "1" THEN "antisemitic"
    ELSE IF k = "unclassified" THEN "unspecified"
    ELSE k

\* The category-keyed statistics, each with the key of its report
CategoryStatistics ==
    {<<"category_counts", "total_tweets">>,
     <<"average_length", "average_length">>,
     <<"longest_texts_by_category", "longest_" \o IntStr(TOP_N_LONGEST_TWEETS) \o "_tweets">>,
     <<"uppercase_words_count", "uppercase_words">>}

\* C15: format returns a mapping with exactly the five keys total_tweets,
\* average_length, longest_3_tweets, common_words and uppercase_words; under
\* each category-keyed statistic every key k of the input appears under its
\* report name with the value it had, and nothing else appears; common_words
\* holds the input word list under the single key 'total'; a statistic that
\* is missing gives an empty mapping (an empty list of words).
C15_FormatterKeys ==
    (ret.op = "format") =>
        LET raw == raw_results.val
            out == ret.val
        IN /\ DOMAIN out = {p[2] : p \in CategoryStatistics} \cup {"common_words"}
           /\ \A p \in CategoryStatistics :
                  IF p[1] \in DOMAIN raw
                  THEN /\ DOMAIN out[p[2]] = {Lookup(k) : k \in DOMAIN raw[p[1]]}
                       /\ \A k \in DOMAIN raw[p[1]] : out[p[2]][Lookup(k)] = raw[p[1]][k]
                  ELSE DOMAIN out[p[2]] = {}
           /\ DOMAIN out["common_words"] = {"total"}
           /\ out["common_words"]["total"] =
                  (IF "most_common_words" \in DOMAIN raw THEN raw["most_common_words"] ELSE <<>>)

\* The value a statistic returns on the table t when t lacks a column the
\* statistic needs, or the values it can return on t itself
ResultOn(t, op, val) ==
    CASE op = "count" ->
             IF ~HasColumn(t, CLASSIFICATION_COLUMN) THEN val = EmptyDict
             ELSE \E o \in ValueCountsOrders(t) : val = CountByCategory(t, o)
      [] op = "average" ->
             IF ~BothColumns(t) THEN val = EmptyDict ELSE val = AverageWordCount(t)
      [] op = "longest" ->
             IF ~BothColumns(t) THEN val = EmptyDict
             ELSE \E o \in SortOrders(t) : val = NLongestTexts(t, o, TOP_N_LONGEST_TWEETS)
      [] op = "words" ->
             IF ~HasColumn(t, TEXT_COLUMN) \/ AllWords(t) = <<>> THEN val = <<>>
             ELSE \E o \in WordOrders(AllWords(t)) : val = MostCommon(o, TOP_N_COMMON_WORDS)
      [] op = "uppercase" ->
             IF ~BothColumns(t) THEN val = EmptyDict ELSE val = UppercaseWords(t)
      [] OTHER -> TRUE

\* C16: whatever statistics were called, in whatever order, the explorer's
\* table is the table it was constructed on (rows, columns and values), and
\* the value a statistic returns is one it returns on that table whatever
\* was computed before; whatever cleaning stages ran, raw_df is the table
\* as loaded.
C16_TablesUnchanged ==
    /\ df = Some(file.t)
    /\ ResultOn(file.t, ret.op, ret.val)
    /\ raw_df.some => raw_df = Some(file.t)

\* Statistics were called on a table with a null text, in another order
\* than that of run_full_exploration, and then every cleaning stage changed
\* processed_df
C16_CalledThenCleaned ==
    /\ pc = "pipeline_returned"
    /\ stages_run = AllStages
    /\ Len(trace) > MaxCalls
    /\ trace[1] # "count"
    /\ \E i \in RowIds(file.t) : IsNa(TextAt(file.t, i))
    /\ DOMAIN exploration_results # {}
    /\ processed_df # raw_df
    /\ processed_df.t.rows # file.t.rows

====
